---- MODULE Spec2Model ----
(***************************************************************************)
(* Model of the powerviz MISO client: the bounded-concurrency transport    *)
(* with retry (powerviz/base.py), the market report locator and the batch  *)
(* orchestrator (powerviz/miso.py).                                        *)
(***************************************************************************)
EXTENDS Integers, Sequences, FiniteSets, TLC

(***************************************************************************)
(* Bounds of the model.                                                    *)
(***************************************************************************)
MinYear == 2023
MaxYear == 2024
\* number of concurrent client calls in the transport specification
NumCallers == 2
\* concurrent_limit, the constructor argument handed to
\* asyncio.BoundedSemaphore (100 by default, 25 for MISOClient)
ConcurrentLimit == 1
\* network failures (connection errors, timeouts) in one run of the
\* transport specification
MaxConnErrors == 10
\* length of the dates argument of a batch call
MaxDates == 2
\* what goes wrong in one run of the batch specification: urls answering
\* HTTP 500, files parse_fn rejects, failures of the network, files the
\* operator withdraws during the call
MaxFaults == 1
\* rows of one daily report file
RowsPerFile == 2
\* entries of a list of a live payload
MaxIntervals == 3

(***************************************************************************)
(* Program constants.                                                      *)
(***************************************************************************)
\* tenacity.stop_after_attempt(max_attempt_number=10)
MaxAttempts == 10
\* tenacity.wait_fixed(wait=10)
WaitSeconds == 10

(***************************************************************************)
(* Strings.  TLC evaluates Len, SubSeq and \o on strings, so file names    *)
(* and urls are the strings the program builds.                            *)
(***************************************************************************)
Digits == <<"0", "1", "2", "3", "4", "5", "6", "7", "8", "9">>

\* "%02d" / "%04d": decimal rendering, zero padded to width w
RECURSIVE ZeroPad(_, _)
ZeroPad(n, w) ==
    IF w = 0 THEN ""
    ELSE ZeroPad(n \div 10, w - 1) \o Digits[(n % 10) + 1]

\* index of the last occurrence of the one-character string c in s, 0 if none
RECURSIVE LastIndexFrom(_, _, _)
LastIndexFrom(s, c, i) ==
    IF i = 0 THEN 0
    ELSE IF SubSeq(s, i, i) = c THEN i
    ELSE LastIndexFrom(s, c, i - 1)

\* s.rsplit(c, maxsplit=1)[-1]
RSplitLast(s, c) ==
    LET i == LastIndexFrom(s, c, Len(s))
    IN  SubSeq(s, i + 1, Len(s))

\* s.strip("/")
RECURSIVE StripSlash(_)
StripSlash(s) ==
    IF Len(s) > 0 /\ SubSeq(s, 1, 1) = "/" THEN StripSlash(SubSeq(s, 2, Len(s)))
    ELSE IF Len(s) > 0 /\ SubSeq(s, Len(s), Len(s)) = "/"
         THEN StripSlash(SubSeq(s, 1, Len(s) - 1))
    ELSE s

\* BaseClient.urljoin for two arguments
urljoin(a, b) == StripSlash(a) \o "/" \o StripSlash(b)

(***************************************************************************)
(* Dates.  A datetime is [year, month, day, hour, tz]; tz is "naive" for   *)
(* a timezone unaware value and "EST" for the client's fixed offset.       *)
(***************************************************************************)
IsLeap(y) == (y % 4 = 0) /\ ((y % 100 # 0) \/ (y % 400 = 0))

DaysInMonth(y, m) ==
    IF m = 2 THEN (IF IsLeap(y) THEN 29 ELSE 28)
    ELSE IF m \in {4, 6, 9, 11} THEN 30
    ELSE 31

\* date + datetime.timedelta(days=1)
AddDay(d) ==
    IF d.day < DaysInMonth(d.year, d.month)
    THEN [d EXCEPT !.day = d.day + 1]
    ELSE IF d.month < 12
    THEN [d EXCEPT !.month = d.month + 1, !.day = 1]
    ELSE [d EXCEPT !.year = d.year + 1, !.month = 1, !.day = 1]

\* proleptic Gregorian day number of a date, by cumulative day counts
DaysBeforeMonthCommon == <<0, 31, 59, 90, 120, 151, 181, 212, 243, 273, 304, 334>>

Ordinal(d) ==
    LET y == d.year - 1
    IN  y * 365 + (y \div 4) - (y \div 100) + (y \div 400)
        + DaysBeforeMonthCommon[d.month]
        + (IF d.month > 2 /\ IsLeap(d.year) THEN 1 ELSE 0)
        + d.day

\* BaseClient.to_native_tz: a naive value is localized, an aware value in
\* the client's own offset is unchanged by astimezone
to_native_tz(d) ==
    IF d.tz # "naive" THEN d
    ELSE [d EXCEPT !.tz = "EST"]

\* date.strftime("%Y%m%d") and date.strftime("%Y%m")
strftime(d, fmt) ==
    IF fmt = "%Y%m%d"
    THEN ZeroPad(d.year, 4) \o ZeroPad(d.month, 2) \o ZeroPad(d.day, 2)
    ELSE ZeroPad(d.year, 4) \o ZeroPad(d.month, 2)

(***************************************************************************)
(* Report locator: file names.                                             *)
(***************************************************************************)
MISOMarketReport ==
    {"FORECAST_AND_LOAD", "GENERATION_FUEL_MIX", "DAYAHEAD_EXANTE_LMP",
     "DAYAHEAD_EXPOST_LMP", "REALTIME_EXANTE_LMP"}

MARKET_REPORT_FILES_SUFFIX_EXT ==
    [r \in MISOMarketReport |->
        CASE r = "FORECAST_AND_LOAD" -> <<"df_al", "xls">>
          [] r = "GENERATION_FUEL_MIX" -> <<"sr_gfm", "xlsx">>
          [] r = "DAYAHEAD_EXANTE_LMP" -> <<"da_exante_lmp", "csv">>
          [] r = "DAYAHEAD_EXPOST_LMP" -> <<"da_expost_lmp", "csv">>
          [] r = "REALTIME_EXANTE_LMP" -> <<"5min_exante_lmp", "xlsx">>]

\* the reports whose files are named by publish date (market date + 1 day)
PublishDateReports ==
    {"FORECAST_AND_LOAD", "GENERATION_FUEL_MIX", "REALTIME_EXANTE_LMP"}

\* the date the file name is formatted from
NoAdvanceFilenameDate(date, report) == to_native_tz(date)

FilenameDate(date, report) ==
    IF report \in PublishDateReports
    THEN AddDay(to_native_tz(date))
    ELSE to_native_tz(date)

market_report_filename(date, report, is_archived) ==
    LET d == FilenameDate(date, report)
        se == MARKET_REPORT_FILES_SUFFIX_EXT[report]
        suffix == IF is_archived THEN se[1] \o "_" \o se[2] ELSE se[1]
        ext == IF is_archived THEN "zip" ELSE se[2]
        date_fmt == IF is_archived THEN "%Y%m" ELSE "%Y%m%d"
    IN  strftime(d, date_fmt) \o "_" \o suffix \o "." \o ext

(***************************************************************************)
(* Transport: errors and the retry policy.                                 *)
(***************************************************************************)
NoError == [cls |-> "none", status |-> 0]

ClientResponseError(status) == [cls |-> "ClientResponseError", status |-> status]
ServerDisconnectedError == [cls |-> "ServerDisconnectedError", status |-> 0]
TimeoutError == [cls |-> "TimeoutError", status |-> 0]

\* the errors of the parsers and of the batch loop
ValueError == [cls |-> "ValueError", status |-> 0]
AssertionError == [cls |-> "AssertionError", status |-> 0]
KeyError == [cls |-> "KeyError", status |-> 0]
ParseError == [cls |-> "ParseError", status |-> 0]
ClientPayloadError == [cls |-> "ClientPayloadError", status |-> 0]
IndexError == [cls |-> "IndexError", status |-> 0]
NotImplementedError == [cls |-> "NotImplementedError", status |-> 0]
DatesTypeError == [cls |-> "DatesTypeError", status |-> 0]

\* the classes an error class derives from (itself included)
Bases(cls) ==
    CASE cls = "ClientResponseError" -> {"ClientResponseError", "ClientError"}
      [] cls = "ClientConnectionError" -> {"ClientConnectionError", "ClientError"}
      [] cls = "ServerDisconnectedError" ->
            {"ServerDisconnectedError", "ServerConnectionError",
             "ClientConnectionError", "ClientError"}
      [] OTHER -> {cls}

isinstance(error, cls) == cls \in Bases(error.cls)

RetryEveryError(error) == TRUE

RetryAllButNotFound(error) ==
    ~(isinstance(error, "ClientResponseError") /\ error.status = 404)

is_retryable_error(error) ==
    IF isinstance(error, "ClientResponseError") /\ error.status = 404
    THEN FALSE
    ELSE isinstance(error, "ClientConnectionError")

\* tenacity.stop_after_attempt
NeverStop(attempt) == FALSE

StopAfterAttempt(attempt) == attempt >= MaxAttempts

(***************************************************************************)
(* One invocation of _fetch or of check_url_exists.  pc is the place the   *)
(* coroutine is suspended at:                                              *)
(*   "acquire"  waiting in "async with self.semaphore"                     *)
(*   "get"      holding a permit, awaiting session.get                     *)
(*   "wait"     tenacity sleeps before the next attempt                    *)
(*   "returned" / "raised"  the invocation is over                         *)
(***************************************************************************)
NewCall(url, via) ==
    [url |-> url, via |-> via, pc |-> "acquire", attempt |-> 1,
     slept |-> 0, value |-> "none", err |-> NoError]

Finished(call) == call.pc \in {"returned", "raised"}

\* what check_url_exists makes of the outcome of its _fetch; err keeps the
\* error that _fetch raised, also when it is caught here
ExistsWithoutHandler(call) ==
    IF call.pc = "returned" THEN [call EXCEPT !.value = "True"] ELSE call

check_url_exists(call) ==
    IF call.pc = "returned" THEN [call EXCEPT !.value = "True"]
    ELSE IF isinstance(call.err, "ClientResponseError")
         THEN IF call.err.status = 404
              THEN [call EXCEPT !.pc = "returned", !.value = "False"]
              ELSE call
    ELSE call

\* reraise=True: when the attempts are used up the last error itself is
\* raised, not a tenacity.RetryError wrapping it
RaiseRetryError(err) == [cls |-> "RetryError", status |-> 0]

Reraise(err) == err

\* the end of one attempt of _fetch under the tenacity decorator; err is
\* NoError when session.get returned a response
AttemptEnd(call, err) ==
    LET fetched ==
            IF err = NoError
            THEN [call EXCEPT !.pc = "returned", !.value = "response",
                              !.err = NoError]
            ELSE IF ~is_retryable_error(err)
                 THEN [call EXCEPT !.pc = "raised", !.err = err]
            ELSE IF StopAfterAttempt(call.attempt)
                 THEN [call EXCEPT !.pc = "raised", !.err = Reraise(err)]
            ELSE [call EXCEPT !.pc = "wait", !.err = err]
    IN  IF call.via = "check_url_exists" /\ fetched.pc # "wait"
        THEN check_url_exists(fetched)
        ELSE fetched

\* tenacity's sleep is over: the next attempt starts
AfterWait(call) ==
    [call EXCEPT !.pc = "acquire", !.attempt = call.attempt + 1,
                 !.slept = call.slept + WaitSeconds]

HttpStatuses == {200, 404, 500}

\* session.get(url, raise_for_status=True) answered with this status
ResponseError(status) ==
    IF status >= 400 THEN ClientResponseError(status) ELSE NoError

(***************************************************************************)
(* Report locator: resolution of the url of one date.                      *)
(***************************************************************************)
BASE_URL == "https://docs.misoenergy.org/marketreports"

\* the candidate the locator probes in a stage of market_report_url
ArchivedProbedFirst(stage) == stage # "archived"

IsArchivedStage(stage) == stage = "archived"

StageUrl(date, report, stage) ==
    urljoin(BASE_URL,
            market_report_filename(date, report, IsArchivedStage(stage)))

\* market_report_url(date, report) up to its first await; answers keeps
\* the outcome of every check_url_exists the coroutine awaited
NewProbe(date, report) ==
    [date |-> to_native_tz(date), stage |-> "unarchived", url |-> "None",
     answers |-> << >>,
     call |-> NewCall(StageUrl(to_native_tz(date), report, "unarchived"),
                      "check_url_exists")]

Answer(call) ==
    [url |-> call.url,
     value |-> IF call.pc = "raised" THEN "raised" ELSE call.value]

\* a resolution that takes an error of the unarchived probe for absence
ResolutionSwallowsErrors(p, call, report) ==
    LET q == [p EXCEPT !.call = call,
                       !.answers = Append(p.answers, Answer(call))]
    IN  IF ~Finished(call) THEN [p EXCEPT !.call = call]
        ELSE IF call.pc = "returned" /\ call.value = "True"
             THEN [q EXCEPT !.stage = "done", !.url = call.url]
        ELSE IF p.stage = "unarchived"
             THEN [q EXCEPT !.stage = "archived",
                            !.call = NewCall(StageUrl(p.date, report, "archived"),
                                             "check_url_exists")]
        ELSE IF call.pc = "raised" THEN [q EXCEPT !.stage = "raised"]
        ELSE [q EXCEPT !.stage = "done", !.url = "None"]

\* market_report_url after a step of its check_url_exists call
market_report_url(p, call, report) ==
    LET q == [p EXCEPT !.call = call,
                       !.answers = Append(p.answers, Answer(call))]
    IN  IF ~Finished(call) THEN [p EXCEPT !.call = call]
        ELSE IF call.pc = "raised" THEN [q EXCEPT !.stage = "raised"]
        ELSE IF call.value = "True"
             THEN [q EXCEPT !.stage = "done", !.url = call.url]
        ELSE IF p.stage = "unarchived"
             THEN [q EXCEPT !.stage = "archived",
                            !.call = NewCall(StageUrl(p.date, report, "archived"),
                                             "check_url_exists")]
        ELSE [q EXCEPT !.stage = "done", !.url = "None"]

(***************************************************************************)
(* Tables and the report parsers.  A table is a sequence of rows; start    *)
(* and end are minutes since the start of the calendar, in the client's    *)
(* fixed offset.  The value columns are left out: no row order and no      *)
(* interval depends on them.                                               *)
(***************************************************************************)
HUB_NAMES ==
    <<"ARKANSAS.HUB", "ILLINOIS.HUB", "INDIANA.HUB", "LOUISIANA.HUB",
      "MICHIGAN.HUB", "MINN.HUB", "MS.HUB", "TEXAS.HUB">>

\* the rank of a node name in the ascending order of the node column
\* (HUB_NAMES is in lexicographic order)
NodeRank(row) ==
    IF "node" \in DOMAIN row
    THEN CHOOSE i \in DOMAIN HUB_NAMES : HUB_NAMES[i] = row.node
    ELSE 0

\* a datetime as minutes since the start of the calendar
Timestamp(d, minute) == (Ordinal(d) * 24 + d.hour) * 60 + minute

\* datetime.timedelta(hours=h, minutes=m)
timedelta(h, m) == h * 60 + m

\* sort_values(by="start")
StartLess(a, b) == a.start < b.start

\* sort_values(by=["start", "node"])
StartNodeLess(a, b) ==
    \/ a.start < b.start
    \/ a.start = b.start /\ NodeRank(a) < NodeRank(b)

\* row order of df.sort_values(by=df.columns.tolist(), ascending=True):
\* the columns are start, end, node (when there is one), then the values
RowLess(a, b) ==
    \/ a.start < b.start
    \/ a.start = b.start /\ a.end < b.end
    \/ a.start = b.start /\ a.end = b.end /\ NodeRank(a) < NodeRank(b)

\* the hour-ending values of the rows (or HE columns) of a daily file: the
\* first hours of the market day and its last
FileHourEndings ==
    [k \in 1..RowsPerFile |-> IF k = RowsPerFile THEN 24 ELSE k]

\* the five-minute intervals of the rows of a real-time file: the first
\* intervals of the market day and its last
FileTimes ==
    [k \in 1..RowsPerFile |->
        IF k = RowsPerFile THEN [hour |-> 23, minute |-> 55]
        ELSE [hour |-> 0, minute |-> 5 * (k - 1)]]

\* the hubs a file has rows of
FileNodes == <<HUB_NAMES[1], HUB_NAMES[8]>>

\* the content of the daily report file of market day d
ReportFile(d) ==
    [market_day |-> [d EXCEPT !.hour = 0, !.tz = "naive"],
     he |-> FileHourEndings, times |-> FileTimes, nodes |-> FileNodes]

\* one row per pair of the two sequences, in file order
Pairs(xs, ys) ==
    [k \in 1..(Len(xs) * Len(ys)) |->
        <<xs[((k - 1) \div Len(ys)) + 1], ys[((k - 1) % Len(ys)) + 1]>>]

\* lines 160-176: "Market Day" plus (HourEnding - 1) hours, localized
parse_forecast_and_load_market_report(file) ==
    LET row(he) ==
            LET start == Timestamp(to_native_tz(file.market_day), 0)
                            + timedelta(he - 1, 0)
            IN  [start |-> start, end |-> start + timedelta(1, 0)]
    IN  SortSeq([k \in DOMAIN file.he |-> row(file.he[k])], StartLess)

\* lines 334-379: the market date plus (HE - 1) hours
parse_generation_fuel_mix_market_report(file) ==
    LET date == to_native_tz(file.market_day)
        row(he) ==
            LET start == Timestamp(date, 0) + timedelta(he - 1, 0)
            IN  [start |-> start, end |-> start + timedelta(1, 0)]
    IN  SortSeq([k \in DOMAIN file.he |-> row(file.he[k])], StartLess)

\* lines 499-518: "Time (EST)" localized, five-minute intervals per node
parse_realtime_exante_lmp_market_report(file) ==
    LET ps == Pairs(file.times, file.nodes)
        row(t, node) ==
            LET start == Timestamp(
                             to_native_tz([file.market_day EXCEPT
                                              !.hour = t.hour]), t.minute)
            IN  [start |-> start, end |-> start + timedelta(0, 5),
                 node |-> node]
    IN  SortSeq([k \in DOMAIN ps |-> row(ps[k][1], ps[k][2])], StartNodeLess)

\* lines 572-623: column "HE h" of a node becomes the row of the interval
\* starting at hour h - 1 of the market date
parse_dayahead_lmp_market_report(file) ==
    LET date == to_native_tz(file.market_day)
        ps == Pairs(file.nodes, file.he)
        row(node, he) ==
            LET start == Timestamp([date EXCEPT !.hour = he - 1], 0)
            IN  [start |-> start, end |-> start + timedelta(1, 0),
                 node |-> node]
    IN  SortSeq([k \in DOMAIN ps |-> row(ps[k][1], ps[k][2])], StartNodeLess)

\* the parser each operation pairs with its report
ParseReport(report, file) ==
    CASE report = "FORECAST_AND_LOAD" ->
            parse_forecast_and_load_market_report(file)
      [] report = "GENERATION_FUEL_MIX" ->
            parse_generation_fuel_mix_market_report(file)
      [] report = "REALTIME_EXANTE_LMP" ->
            parse_realtime_exante_lmp_market_report(file)
      [] OTHER -> parse_dayahead_lmp_market_report(file)

(***************************************************************************)
(* Live payloads: the reference id.                                        *)
(***************************************************************************)
Whitespace == {" ", "\t"}

\* str.split(): the maximal runs of characters that are not whitespace
RECURSIVE SplitFrom(_, _, _, _)
SplitFrom(s, i, cur, acc) ==
    LET closed == IF cur = "" THEN acc ELSE Append(acc, cur)
    IN  IF i > Len(s) THEN closed
        ELSE IF SubSeq(s, i, i) \in Whitespace
             THEN SplitFrom(s, i + 1, "", closed)
        ELSE SplitFrom(s, i + 1, cur \o SubSeq(s, i, i), acc)

split(s) == SplitFrom(s, 1, "", << >>)

\* the pieces of s between the occurrences of the one-character string c
RECURSIVE SplitOnFrom(_, _, _, _, _)
SplitOnFrom(s, c, i, cur, acc) ==
    IF i > Len(s) THEN Append(acc, cur)
    ELSE IF SubSeq(s, i, i) = c
         THEN SplitOnFrom(s, c, i + 1, "", Append(acc, cur))
    ELSE SplitOnFrom(s, c, i + 1, cur \o SubSeq(s, i, i), acc)

SplitOn(s, c) == SplitOnFrom(s, c, 1, "", << >>)

\* s consists of between lo and hi decimal digits
IsNumber(s, lo, hi) ==
    /\ Len(s) \in lo..hi
    /\ \A i \in 1..Len(s) : \E k \in DOMAIN Digits : Digits[k] = SubSeq(s, i, i)

\* int(s) of a string of decimal digits
RECURSIVE int(_)
int(s) ==
    IF Len(s) = 0 THEN 0
    ELSE int(SubSeq(s, 1, Len(s) - 1)) * 10
         + (CHOOSE k \in DOMAIN Digits :
                Digits[k] = SubSeq(s, Len(s), Len(s))) - 1

\* the month names "%b" matches
MonthAbbr ==
    <<"Jan", "Feb", "Mar", "Apr", "May", "Jun",
      "Jul", "Aug", "Sep", "Oct", "Nov", "Dec">>

\* list[lo:hi] of Python, for 0 <= lo <= hi
Slice(t, lo, hi) ==
    LET n == IF hi < Len(t) THEN hi ELSE Len(t)
    IN  IF lo + 1 > n THEN << >> ELSE SubSeq(t, lo + 1, n)

\* datetime.strptime(s, "%d-%b-%Y - Interval %H:%M"): the naive datetime,
\* or the ValueError of a string that does not match the format
strptime_refid(s) ==
    LET t == split(s)
        bad == [err |-> ValueError]
        edge(i) == SubSeq(s, i, i) \in Whitespace
    IN  IF Len(t) # 4 \/ edge(1) \/ edge(Len(s)) THEN bad
        ELSE IF t[2] # "-" \/ t[3] # "Interval" THEN bad
        ELSE LET dmy == SplitOn(t[1], "-")
                 hm == SplitOn(t[4], ":")
             IN  IF Len(dmy) # 3 \/ Len(hm) # 2 THEN bad
                 ELSE IF \/ ~IsNumber(dmy[1], 1, 2)
                         \/ ~(\E m \in DOMAIN MonthAbbr : MonthAbbr[m] = dmy[2])
                         \/ ~IsNumber(dmy[3], 4, 4)
                         \/ ~IsNumber(hm[1], 1, 2)
                         \/ ~IsNumber(hm[2], 1, 2)
                      THEN bad
                 ELSE LET month == CHOOSE m \in DOMAIN MonthAbbr :
                                      MonthAbbr[m] = dmy[2]
                          d == [year |-> int(dmy[3]), month |-> month,
                                day |-> int(dmy[1]), hour |-> int(hm[1]),
                                minute |-> int(hm[2]), tz |-> "naive"]
                      IN  IF \/ d.year < 1
                             \/ d.day \notin 1..DaysInMonth(d.year, d.month)
                             \/ d.hour > 23 \/ d.minute > 59
                          THEN bad
                          ELSE [err |-> NoError, value |-> d]

\* parse_api_refid_datetime(refid_str): the datetime of
\* "{day}-{month}-{year} - Interval {hour}:{min} EST" in the client's
\* offset, or the error the method raises
Localized(datetime) ==
    IF datetime.err # NoError THEN datetime
    ELSE [err |-> NoError, value |-> to_native_tz(datetime.value)]

CheckedRefid(refid_str, refid_split) ==
    IF refid_split = << >> THEN [err |-> IndexError]
    ELSE IF \/ refid_split[Len(refid_split)] # "EST"
            \/ Slice(refid_split, 1, 3) # <<"-", "Interval">>
         THEN [err |-> ValueError]
    ELSE Localized(strptime_refid(SubSeq(refid_str, 1, Len(refid_str) - 4)))

parse_api_refid_datetime(refid_str) ==
    CheckedRefid(refid_str, split(refid_str))

(***************************************************************************)
(* Live payloads: the parsers of the API answers.  A parser yields         *)
(* [err, value]: the error it raises, or NoError and the table.            *)
(***************************************************************************)
\* date.replace(hour=h, minute=m)
Replace(date, h, m) ==
    IF h \in 0..23 /\ m \in 0..59
    THEN [err |-> NoError, value |-> [date EXCEPT !.hour = h, !.minute = m]]
    ELSE [err |-> ValueError]

\* the error of the first entry a loop over the payload fails on
FirstError(rs) ==
    IF \A k \in DOMAIN rs : rs[k].err = NoError THEN NoError
    ELSE rs[CHOOSE k \in DOMAIN rs :
               /\ rs[k].err # NoError
               /\ \A j \in 1..(k - 1) : rs[j].err = NoError].err

\* pd.DataFrame(rows).sort_values(by="start"): a frame without rows has
\* no column "start"
SortedByStart(rs) ==
    IF FirstError(rs) # NoError THEN [err |-> FirstError(rs)]
    ELSE IF rs = << >> THEN [err |-> KeyError]
    ELSE [err |-> NoError,
          value |-> SortSeq([k \in DOMAIN rs |-> rs[k].value], StartLess)]

\* the rows in payload order
InPayloadOrder(rs) ==
    IF FirstError(rs) # NoError THEN [err |-> FirstError(rs)]
    ELSE IF rs = << >> THEN [err |-> KeyError]
    ELSE [err |-> NoError, value |-> [k \in DOMAIN rs |-> rs[k].value]]

\* lines 106-109 and 227-230: the date of the reference id at midnight
AtMidnight(refid) ==
    IF refid.err # NoError THEN refid
    ELSE [err |-> NoError,
          value |-> [refid.value EXCEPT !.hour = 0, !.minute = 0]]

RefidDate(json) == AtMidnight(parse_api_refid_datetime(json.RefId))

\* lines 112-126: one row per entry of FiveMinTotalLoad
LoadRows(json, date) ==
    [k \in DOMAIN json.FiveMinTotalLoad |->
        LET hm == SplitOn(json.FiveMinTotalLoad[k], ":")
        IN  IF Len(hm) # 2 \/ ~IsNumber(hm[1], 1, 2) \/ ~IsNumber(hm[2], 1, 2)
            THEN [err |-> ValueError]
            ELSE LET start == Replace(date, int(hm[1]), int(hm[2]))
                 IN  IF start.err # NoError THEN start
                     ELSE LET t == Timestamp(start.value, start.value.minute)
                          IN  [err |-> NoError,
                               value |-> [start |-> t,
                                          end |-> t + timedelta(0, 5)]]]

LoadTableUnsorted(json, date) ==
    IF date.err # NoError THEN date
    ELSE InPayloadOrder(LoadRows(json, date.value))

parse_load_api_data_unsorted(json) ==
    LoadTableUnsorted(json, RefidDate(json))

LoadTable(json, date) ==
    IF date.err # NoError THEN date
    ELSE SortedByStart(LoadRows(json, date.value))

parse_load_api_data(json) == LoadTable(json, RefidDate(json))

\* the hour-ending taken for the hour the interval starts at
ForecastRowsByHourEnding(json, date) ==
    [k \in DOMAIN json.MediumTermLoadForecast |->
        LET start == Replace(date, json.MediumTermLoadForecast[k], 0)
        IN  IF start.err # NoError THEN start
            ELSE LET t == Timestamp(start.value, 0)
                 IN  [err |-> NoError,
                      value |-> [start |-> t, end |-> t + timedelta(1, 0)]]]

\* lines 233-247: one row per entry of MediumTermLoadForecast
ForecastRows(json, date) ==
    [k \in DOMAIN json.MediumTermLoadForecast |->
        LET hour == json.MediumTermLoadForecast[k] - 1
            start == Replace(date, hour, 0)
        IN  IF start.err # NoError THEN start
            ELSE LET t == Timestamp(start.value, 0)
                 IN  [err |-> NoError,
                      value |-> [start |-> t, end |-> t + timedelta(1, 0)]]]

ForecastTable(json, date) ==
    IF date.err # NoError THEN date
    ELSE SortedByStart(ForecastRows(json, date.value))

parse_forecast_api_data(json) == ForecastTable(json, RefidDate(json))

\* "%I ... %p": the hour of a twelve-hour clock time
HourOf12(hour12, pm) == (hour12 % 12) + (IF pm THEN 12 ELSE 0)

\* lines 297-322: one row for the interval of the reference id; every fuel
\* entry is asserted to be of that interval (checked is FALSE when
\* assert statements are stripped)
FuelMixTable(json, checked, refid) ==
    LET same(e) == to_native_tz([year |-> e.year, month |-> e.month,
                                 day |-> e.day,
                                 hour |-> HourOf12(e.hour12, e.pm),
                                 minute |-> e.minute, tz |-> "naive"])
                      = refid.value
    IN  IF refid.err # NoError THEN refid
        ELSE IF checked /\ \E k \in DOMAIN json.Fuel : ~same(json.Fuel[k])
             THEN [err |-> AssertionError]
        ELSE LET t == Timestamp(refid.value, refid.value.minute)
             IN  [err |-> NoError,
                  value |-> <<[start |-> t, end |-> t + timedelta(0, 5)]>>]

parse_fuel_mix_api_data(json, checked) ==
    FuelMixTable(json, checked, parse_api_refid_datetime(json.RefId))

\* df[df["node"].isin(HUB_NAMES)]
RECURSIVE HubRowsOnly(_)
HubRowsOnly(rows) ==
    IF rows = << >> THEN << >>
    ELSE (IF \E i \in DOMAIN HUB_NAMES : HUB_NAMES[i] = Head(rows).CPNODE
          THEN <<Head(rows)>> ELSE << >>) \o HubRowsOnly(Tail(rows))

\* lines 429-469: the hub rows of the csv, five-minute intervals
parse_realtime_expost_lmp_api_data(csv) ==
    LET hubs == HubRowsOnly(csv)
        row(r) ==
            LET t == Timestamp(to_native_tz(r.INTERVAL), r.INTERVAL.minute)
            IN  [start |-> t, end |-> t + timedelta(0, 5), node |-> r.CPNODE]
    IN  [err |-> NoError,
         value |-> SortSeq([k \in DOMAIN hubs |-> row(hubs[k])],
                           StartNodeLess)]

(***************************************************************************)
(* Batch orchestrator.                                                     *)
(***************************************************************************)
RECURSIVE SetToSeq(_)
SetToSeq(S) ==
    IF S = {} THEN << >>
    ELSE LET x == CHOOSE y \in S : TRUE
         IN  <<x>> \o SetToSeq(S \ {x})

RECURSIVE Concat(_)
Concat(tables) ==
    IF tables = << >> THEN << >>
    ELSE Head(tables) \o Concat(Tail(tables))


\* the locals of retrieve_and_parse_market_report_files at its start
NewBatch ==
    [pc |-> "resolving", urls_dict |-> << >>, unretrieved_files |-> {},
     dfs |-> << >>, df |-> << >>, err |-> NoError, taken |-> 0,
     missing_dates |-> {}, missing_files |-> {}]

\* the market day whose report a daily file holds
MarketDayOf(filename, days, report) ==
    CHOOSE d \in days : market_report_filename(d, report, FALSE) = filename

\* parse_fn: the parser the caller hands over with the report, applied to
\* the content of the daily file
parse_fn(filename, days, report) ==
    ParseReport(report, ReportFile(MarketDayOf(filename, days, report)))

\* urls_dict = {date: url for date, url in zip(dates, urls) if url is not None}
UrlsDict(ps) ==
    LET found == {k \in DOMAIN ps : ps[k].url # "None"}
        last(d) == CHOOSE k \in found :
                      /\ ps[k].date = d
                      /\ \A j \in found : ps[j].date = d => j <= k
    IN  [d \in {ps[k].date : k \in found} |-> ps[last(d)].url]

MissingDates(ps) == {ps[k].date : k \in {k \in DOMAIN ps : ps[k].url = "None"}}

\* the end of the batch without the final sort
FinalizeUnsorted(b) ==
    LET warned == [b EXCEPT !.missing_files = b.unretrieved_files]
    IN  IF b.dfs = << >>
        THEN [warned EXCEPT !.pc = "raised", !.err = ValueError]
        ELSE [warned EXCEPT !.pc = "returned", !.df = Concat(b.dfs)]

\* lines 687-702: the end of the batch: warning, concatenation and sort
Finalize(b) ==
    LET warned == [b EXCEPT !.missing_files = b.unretrieved_files]
    IN  IF b.dfs = << >>
        THEN [warned EXCEPT !.pc = "raised", !.err = ValueError]
        ELSE [warned EXCEPT !.pc = "returned",
                            !.df = SortSeq(Concat(b.dfs), RowLess)]

\* the distinct urls of the batch, in the order their tasks are created
FetchUrls(b) == SetToSeq({b.urls_dict[d] : d \in DOMAIN b.urls_dict})

\* lines 636-660: gather returned; the expected set and the fetch tasks
AfterResolve(b, ps, report) ==
    LET ud == UrlsDict(ps)
        started ==
            [b EXCEPT !.pc = "fetching", !.urls_dict = ud,
                      !.missing_dates = MissingDates(ps),
                      !.unretrieved_files =
                          {market_report_filename(d, report, FALSE) :
                              d \in DOMAIN ud}]
    IN  IF DOMAIN ud = {} THEN Finalize(started) ELSE started

\* the batch after a step of probe k: gather raises the error of the first
\* probe that fails and returns when every probe has returned
AfterProbe(b, ps, k, report) ==
    IF b.pc # "resolving" THEN b
    ELSE IF ps[k].stage = "raised"
         THEN [b EXCEPT !.pc = "raised", !.err = ps[k].call.err]
    ELSE IF \A j \in DOMAIN ps : ps[j].stage = "done"
         THEN AfterResolve(b, ps, report)
    ELSE b

\* the parsed table put in the place of the accumulator
ParseFileOverwrites(st, filename, days, report, bad) ==
    IF filename \in bad
    THEN [st EXCEPT !.parsed = Append(st.parsed, filename), !.err = ParseError]
    ELSE [st EXCEPT !.parsed = Append(st.parsed, filename),
                    !.dfs = <<parse_fn(filename, days, report)>>]

\* one file handed to parse_fn; st is [unret, dfs, parsed, err]
ParseFile(st, filename, days, report, bad) ==
    IF filename \in bad
    THEN [st EXCEPT !.parsed = Append(st.parsed, filename), !.err = ParseError]
    ELSE [st EXCEPT !.parsed = Append(st.parsed, filename),
                    !.dfs = Append(st.dfs, parse_fn(filename, days, report))]

\* set.remove(filename)
Remove(st, filename) ==
    IF st.err # NoError THEN st
    ELSE IF filename \in st.unret
         THEN [st EXCEPT !.unret = st.unret \ {filename}]
    ELSE [st EXCEPT !.err = KeyError]

\* the members of an archive are parsed when expected
ParseEveryMember(filename, unret) == TRUE

IsExpected(filename, unret) == filename \in unret

\* lines 670-678: the loop over zfile.filelist
RECURSIVE ProcessZip(_, _, _, _, _)
ProcessZip(st, members, days, report, bad) ==
    IF members = << >> \/ st.err # NoError THEN st
    ELSE LET filename == Head(members)
             next == IF IsExpected(filename, st.unret)
                     THEN Remove(ParseFile(st, filename, days, report, bad),
                                 filename)
                     ELSE st
         IN  ProcessZip(next, Tail(members), days, report, bad)

\* lines 680-685: a payload that is no archive; checked is FALSE when the
\* interpreter strips assert statements (python -O)
ProcessFile(st, filename, days, report, bad, checked) ==
    IF checked /\ filename \notin st.unret
    THEN [st EXCEPT !.err = AssertionError]
    ELSE Remove(ParseFile(st, filename, days, report, bad), filename)

\* lines 662-685: one completed fetch whose body was read
ProcessResponse(st, url, members, days, report, bad, checked) ==
    LET filename == RSplitLast(url, "/")
        ext == RSplitLast(filename, ".")
    IN  IF ext = "zip"
        THEN ProcessZip(st, members, days, report, bad)
        ELSE ProcessFile(st, filename, days, report, bad, checked)

(***************************************************************************)
(* The operations of the client, one per metric family.  The dates         *)
(* argument is [mode |-> "latest"], [mode |-> "today"], a list of          *)
(* datetimes [mode |-> "list", dates |-> <<...>>] or anything else         *)
(* [mode |-> "other"].  An operation first decides what to await:          *)
(*   [do |-> "fetch", url]            self._fetch(url), the live API       *)
(*   [do |-> "batch", report, dates]  retrieve_and_parse_market_report_files*)
(*   [do |-> "raise", err]            nothing, it raises                   *)
(***************************************************************************)
Operations ==
    {"get_load_data", "get_forecast_data", "get_fuel_mix_data",
     "get_realtime_lmp_data", "get_dayahead_lmp_data"}

DataBrokerUrl(messageType) ==
    "https://api.misoenergy.org/MISORTWDDataBroker/DataBroker"
    \o "Services.asmx?messageType=" \o messageType \o "&returnType=json"

ReporterUrl(interval) ==
    "https://api.misoenergy.org/MISORTWDBIReporter/"
    \o "Reporter.asmx?messageType=" \o interval \o "&returnType=csv"

\* dates in ("latest", "today")
IsLive(dates) == dates.mode \in {"latest", "today"}

\* isinstance(dates, list) and all(isinstance(date, dt.datetime) ...)
IsDateList(dates) == dates.mode = "list"

\* a load request served from the report files whatever the mode
LoadLatestFromReports(dates, now) ==
    IF IsLive(dates)
    THEN [do |-> "batch", report |-> "FORECAST_AND_LOAD", dates |-> <<now>>]
    ELSE IF IsDateList(dates)
    THEN [do |-> "batch", report |-> "FORECAST_AND_LOAD",
          dates |-> dates.dates]
    ELSE [do |-> "raise", err |-> DatesTypeError]

get_load_data(dates, now) ==
    IF IsLive(dates)
    THEN [do |-> "fetch", url |-> DataBrokerUrl("gettotalload")]
    ELSE IF IsDateList(dates)
    THEN [do |-> "batch", report |-> "FORECAST_AND_LOAD",
          dates |-> dates.dates]
    ELSE [do |-> "raise", err |-> DatesTypeError]

get_forecast_data(dates, now) ==
    IF IsLive(dates)
    THEN [do |-> "fetch", url |-> DataBrokerUrl("gettotalload")]
    ELSE IF IsDateList(dates)
    THEN [do |-> "batch", report |-> "FORECAST_AND_LOAD",
          dates |-> dates.dates]
    ELSE [do |-> "raise", err |-> DatesTypeError]

\* a fuel mix request that treats "today" like "latest"
FuelMixTodayFetches(dates, now) ==
    IF IsLive(dates)
    THEN [do |-> "fetch", url |-> DataBrokerUrl("getfuelmix")]
    ELSE IF IsDateList(dates)
    THEN [do |-> "batch", report |-> "GENERATION_FUEL_MIX",
          dates |-> dates.dates]
    ELSE [do |-> "raise", err |-> DatesTypeError]

get_fuel_mix_data(dates, now) ==
    IF dates.mode = "today"
    THEN [do |-> "raise", err |-> NotImplementedError]
    ELSE IF dates.mode = "latest"
    THEN [do |-> "fetch", url |-> DataBrokerUrl("getfuelmix")]
    ELSE IF IsDateList(dates)
    THEN [do |-> "batch", report |-> "GENERATION_FUEL_MIX",
          dates |-> dates.dates]
    ELSE [do |-> "raise", err |-> DatesTypeError]

get_realtime_lmp_data(dates, now) ==
    IF IsLive(dates)
    THEN [do |-> "fetch",
          url |-> ReporterUrl(IF dates.mode = "latest" THEN "currentinterval"
                              ELSE "rollingmarketday")]
    ELSE IF IsDateList(dates)
    THEN [do |-> "batch", report |-> "REALTIME_EXANTE_LMP",
          dates |-> dates.dates]
    ELSE [do |-> "raise", err |-> DatesTypeError]

\* day-ahead prices come from the report files in every mode: the live
\* modes ask for the report of the current day
get_dayahead_lmp_data(dates, now, price_type) ==
    IF IsLive(dates)
    THEN [do |-> "batch", report |-> price_type, dates |-> <<now>>]
    ELSE IF IsDateList(dates)
    THEN [do |-> "batch", report |-> price_type, dates |-> dates.dates]
    ELSE [do |-> "raise", err |-> DatesTypeError]

\* the operation op called with dates at clock time now
Dispatch(op, dates, now) ==
    CASE op = "get_load_data" -> get_load_data(dates, now)
      [] op = "get_forecast_data" -> get_forecast_data(dates, now)
      [] op = "get_fuel_mix_data" -> get_fuel_mix_data(dates, now)
      [] op = "get_realtime_lmp_data" -> get_realtime_lmp_data(dates, now)
      [] OTHER -> get_dayahead_lmp_data(dates, now, "DAYAHEAD_EXPOST_LMP")

\* dt.datetime.now(tz).replace(minute=0, second=0, microsecond=0)
CurrentHour(now) == Timestamp(now, 0)

\* df[df["start"] == t].reset_index(drop=True)
RECURSIVE StartingAt(_, _)
StartingAt(df, t) ==
    IF df = << >> THEN << >>
    ELSE (IF Head(df).start = t THEN <<Head(df)>> ELSE << >>)
         \o StartingAt(Tail(df), t)

\* the first row instead of the last
FirstOfLoad(df, dates) ==
    IF dates.mode = "latest" THEN SubSeq(df, 1, 1) ELSE df

\* lines 83-84: load_df.iloc[-1:] of a latest request
LatestOfLoad(df, dates) ==
    IF dates.mode = "latest" THEN SubSeq(df, Len(df), Len(df)) ELSE df

\* the current hour selected in every live mode
CurrentHourAlways(df, dates, now) == StartingAt(df, CurrentHour(now))

\* lines 199-205 and 545-551: the row of the current hour of a latest
\* request
LatestOfHourly(df, dates, now) ==
    IF dates.mode = "latest" THEN StartingAt(df, CurrentHour(now)) ELSE df

\* the operation after self._fetch returned and the body was read: the
\* table it returns or the error it raises
ParseLive(op, payload, checked) ==
    CASE op = "get_load_data" -> parse_load_api_data(payload)
      [] op = "get_forecast_data" -> parse_forecast_api_data(payload)
      [] op = "get_fuel_mix_data" -> parse_fuel_mix_api_data(payload, checked)
      [] OTHER -> parse_realtime_expost_lmp_api_data(payload)

PostFilter(op, dates, now, parse) ==
    IF parse.err # NoError THEN parse
    ELSE IF op = "get_load_data"
    THEN [parse EXCEPT !.value = LatestOfLoad(parse.value, dates)]
    ELSE IF op = "get_forecast_data"
    THEN [parse EXCEPT !.value = LatestOfHourly(parse.value, dates, now)]
    ELSE parse

AfterLiveFetch(op, dates, payload, now, checked) ==
    PostFilter(op, dates, now, ParseLive(op, payload, checked))

\* the operation after retrieve_and_parse_market_report_files ended as b
\* (the selection of the value columns does not change the rows)
AfterBatch(op, dates, b, now) ==
    IF b.pc = "raised" THEN [err |-> b.err]
    ELSE IF op = "get_dayahead_lmp_data" /\ IsLive(dates)
    THEN [err |-> NoError, value |-> LatestOfHourly(b.df, dates, now)]
    ELSE [err |-> NoError, value |-> b.df]

(***************************************************************************)
(* State.                                                                  *)
(***************************************************************************)
VARIABLES
    fnArgs,     \* arguments of a market_report_filename call
    fnResult,   \* its result, "" before the call
    semaphore,  \* free permits of self.semaphore
    connBudget, \* failures the network may still produce
    remote,     \* url -> the HTTP status the server answers with
    callers,    \* caller -> its invocation of _fetch / check_url_exists
    reqReport,  \* the report argument of the batch call
    reqDates,   \* the dates argument of the batch call
    zips,       \* archive url -> the member names of the archive, in order
    corrupt,    \* the file names whose content parse_fn rejects
    withdrawn,  \* the urls the operator withdrew during the call
    probes,     \* index of a date -> its market_report_url coroutine
    fetches,    \* the _fetch tasks of the batch, one per distinct url
    doneQ,      \* completed fetch tasks the batch loop has not taken yet
    batch,      \* locals of retrieve_and_parse_market_report_files
    parsed,     \* the file names handed to parse_fn so far, in order
    facade,     \* the call of a get_*_data operation and its locals
    live,       \* the clock and the payload the live API answers with
    client      \* the session of the client and the life of its process

fnVars == <<fnArgs, fnResult>>

worldVars == <<remote, reqReport, reqDates, zips, corrupt, withdrawn>>

batchVars == <<probes, fetches, doneQ, batch, parsed>>

liveVars == <<facade, live, client>>

vars == <<fnArgs, fnResult, semaphore, connBudget, remote, callers, reqReport,
          reqDates, zips, corrupt, withdrawn, probes, fetches, doneQ, batch,
          parsed, facade, live, client>>

\* the values of the variables a specification does not use
NoFilenameCall ==
    /\ fnArgs = [date |-> [year |-> MinYear, month |-> 1, day |-> 1,
                           hour |-> 0, tz |-> "EST"],
                 report |-> "FORECAST_AND_LOAD", is_archived |-> FALSE]
    /\ fnResult = ""

NoBatchCall ==
    /\ reqReport = "FORECAST_AND_LOAD"
    /\ reqDates = << >>
    /\ zips = << >>
    /\ corrupt = {}
    /\ withdrawn = {}
    /\ probes = << >>
    /\ fetches = << >>
    /\ doneQ = << >>
    /\ batch = [pc |-> "idle"]
    /\ parsed = << >>

NoFacadeCall ==
    /\ facade = [pc |-> "idle"]
    /\ live = [now |-> "never"]
    /\ client = [session |-> "open", owner |-> "client", process |-> "running"]

AllDates ==
    {d \in [year : MinYear..MaxYear, month : 1..12, day : 1..31,
            hour : {0, 23}, tz : {"naive", "EST"}] :
        d.day <= DaysInMonth(d.year, d.month)}

(***************************************************************************)
(* Specification of the file name function alone.                          *)
(***************************************************************************)
InitFilename ==
    /\ NoFacadeCall
    /\ fnArgs \in [date : AllDates, report : MISOMarketReport,
                   is_archived : BOOLEAN]
    /\ fnResult = ""
    /\ semaphore = ConcurrentLimit
    /\ connBudget = 0
    /\ remote = << >>
    /\ callers = << >>
    /\ NoBatchCall

CallFilename ==
    /\ fnResult = ""
    /\ fnResult' = market_report_filename(fnArgs.date, fnArgs.report,
                                          fnArgs.is_archived)
    /\ UNCHANGED <<fnArgs, liveVars, semaphore, connBudget, callers, worldVars, batchVars>>

NextFilename == CallFilename

SpecFilename == InitFilename /\ [][NextFilename]_vars

(***************************************************************************)
(* Transport actions, shared by every specification.                       *)
(***************************************************************************)
\* the errors one attempt on url can end with, NoError for a response
AttemptOutcomes(url) ==
    {ResponseError(remote[url])}
    \cup (IF connBudget > 0
          THEN {ServerDisconnectedError, TimeoutError}
          ELSE {})

ConnBudgetAfter(err) ==
    IF err.cls \in {"ServerDisconnectedError", "TimeoutError", "ClientPayloadError"}
    THEN connBudget - 1
    ELSE connBudget

\* a permit that is not given back
KeepPermit(n) == n

\* "async with self.semaphore" exits when session.get returns or raises
Release(n) == n + 1

\* asyncio.Semaphore.acquire proceeds only while a permit is free
PermitAlwaysFree(n) == TRUE

PermitFree(n) == n > 0

(***************************************************************************)
(* Specification of the transport: NumCallers concurrent client calls,     *)
(* each a _fetch (as the live API path issues) or a check_url_exists.      *)
(***************************************************************************)
CallerUrl(i) == "https://api.misoenergy.org/" \o ZeroPad(i, 2)

Vias == <<"_fetch", "check_url_exists">>

\* callers are interchangeable: one initial state per multiset of
\* (kind of call, server status)
CallerRank(call, rem) ==
    (IF call.via = "_fetch" THEN 0 ELSE 1000) + rem[call.url]

InitTransport ==
    /\ NoFilenameCall
    /\ NoFacadeCall
    /\ NoBatchCall
    /\ semaphore = ConcurrentLimit
    /\ connBudget = MaxConnErrors
    /\ remote \in [{CallerUrl(i) : i \in 1..NumCallers} -> HttpStatuses]
    /\ \E via \in [1..NumCallers -> {1, 2}] :
          callers = [i \in 1..NumCallers |-> NewCall(CallerUrl(i), Vias[via[i]])]
    /\ \A i \in 1..(NumCallers - 1) :
          CallerRank(callers[i], remote) <= CallerRank(callers[i + 1], remote)

\* a waiting caller takes a free permit and issues session.get
CallerAcquire(i) ==
    /\ callers[i].pc = "acquire"
    /\ PermitFree(semaphore)
    /\ semaphore' = semaphore - 1
    /\ callers' = [callers EXCEPT ![i].pc = "get"]
    /\ UNCHANGED <<fnVars, liveVars, connBudget, worldVars, batchVars>>

\* session.get of caller i returns or raises; the permit is released and
\* the retry policy decides what follows
CallerAttemptEnds(i) ==
    /\ callers[i].pc = "get"
    /\ \E err \in AttemptOutcomes(callers[i].url) :
          /\ callers' = [callers EXCEPT ![i] = AttemptEnd(callers[i], err)]
          /\ connBudget' = ConnBudgetAfter(err)
    /\ semaphore' = Release(semaphore)
    /\ UNCHANGED <<fnVars, liveVars, worldVars, batchVars>>

\* the fixed wait of caller i is over
CallerWaitEnds(i) ==
    /\ callers[i].pc = "wait"
    /\ callers' = [callers EXCEPT ![i] = AfterWait(callers[i])]
    /\ UNCHANGED <<fnVars, liveVars, semaphore, connBudget, worldVars, batchVars>>

NextTransport ==
    \E i \in 1..NumCallers :
        \/ CallerAcquire(i)
        \/ CallerAttemptEnds(i)
        \/ CallerWaitEnds(i)

SpecTransport == InitTransport /\ [][NextTransport]_vars

(***************************************************************************)
(* Specification of one batch call,                                        *)
(* retrieve_and_parse_market_report_files(reqDates, reqReport, parse_fn).  *)
(***************************************************************************)
\* the instants a request is drawn from: two days of one month, the later
\* one at two hours, timezone aware or not
BatchInstants ==
    <<[year |-> MaxYear, month |-> 1, day |-> 30, hour |-> 0, tz |-> "naive"],
      [year |-> MaxYear, month |-> 1, day |-> 31, hour |-> 0, tz |-> "EST"],
      [year |-> MaxYear, month |-> 1, day |-> 31, hour |-> 23, tz |-> "naive"]>>

BatchReports == {"FORECAST_AND_LOAD", "DAYAHEAD_EXPOST_LMP"}

\* the order of the dates does not matter to the call: one request per
\* multiset of instants
Requests ==
    {[k \in DOMAIN ix |-> BatchInstants[ix[k]]] :
        ix \in {f \in UNION {[1..m -> 1..Len(BatchInstants)] : m \in 1..MaxDates} :
                    \A k \in 1..(Len(f) - 1) : f[k] <= f[k + 1]}}

\* the market days the operator has published reports of
WorldDays == {to_native_tz(BatchInstants[k]) : k \in 1..Len(BatchInstants)}

WorldNames(report) ==
    {market_report_filename(d, report, FALSE) : d \in WorldDays}

\* the daily files of the month of an archive
MonthNames(archiveUrl, report) ==
    LET zipname == RSplitLast(archiveUrl, "/")
    IN  {n \in WorldNames(report) : SubSeq(n, 1, 6) = SubSeq(zipname, 1, 6)}

\* the report site as a call for reqDates and reqReport can find it
BatchWorld ==
    /\ LET stages == {"unarchived", "archived"}
           native == {to_native_tz(reqDates[k]) : k \in DOMAIN reqDates}
           urls == {StageUrl(d, reqReport, st) : d \in native, st \in stages}
           archives == {StageUrl(d, reqReport, "archived") : d \in native}
       IN  /\ remote \in [urls -> HttpStatuses]
           /\ zips \in [archives ->
                          {SetToSeq(ms) :
                              ms \in SUBSET WorldNames(reqReport)}]
           /\ \A u \in archives :
                 /\ remote[u] # 200 => zips[u] = << >>
                 /\ \A i \in DOMAIN zips[u] :
                       zips[u][i] \in MonthNames(u, reqReport)
    /\ corrupt \in SUBSET WorldNames(reqReport)
    /\ connBudget = MaxFaults - Cardinality(corrupt)
                       - Cardinality({u \in DOMAIN remote : remote[u] = 500})
    /\ connBudget >= 0
    /\ withdrawn = {}

Init ==
    /\ NoFilenameCall
    /\ NoFacadeCall
    /\ callers = << >>
    /\ semaphore = ConcurrentLimit
    /\ reqReport \in BatchReports
    /\ reqDates \in Requests
    /\ BatchWorld
    /\ probes = [k \in DOMAIN reqDates |-> NewProbe(reqDates[k], reqReport)]
    /\ fetches = << >>
    /\ doneQ = << >>
    /\ batch = NewBatch
    /\ parsed = << >>

\* the fetch tasks the batch creates when it enters the fetch loop
StartedFetches(b) ==
    IF b.pc = "fetching"
    THEN LET urls == FetchUrls(b)
         IN  [i \in DOMAIN urls |-> NewCall(urls[i], "_fetch")]
    ELSE << >>

\* a waiting probe takes a free permit and issues session.get
ProbeAcquire(k) ==
    /\ probes[k].stage \in {"unarchived", "archived"}
    /\ probes[k].call.pc = "acquire"
    /\ PermitFree(semaphore)
    /\ semaphore' = semaphore - 1
    /\ probes' = [probes EXCEPT ![k].call.pc = "get"]
    /\ UNCHANGED <<fnVars, liveVars, connBudget, callers, worldVars, fetches, doneQ,
                   batch, parsed>>

\* the fixed wait of a probe is over
ProbeWaitEnds(k) ==
    /\ probes[k].stage \in {"unarchived", "archived"}
    /\ probes[k].call.pc = "wait"
    /\ probes' = [probes EXCEPT ![k].call = AfterWait(probes[k].call)]
    /\ UNCHANGED <<fnVars, liveVars, semaphore, connBudget, callers, worldVars, fetches,
                   doneQ, batch, parsed>>

\* session.get of a probe returns or raises: check_url_exists and
\* market_report_url continue, and with them gather and the batch
ProbeAttemptEnds(k) ==
    /\ probes[k].stage \in {"unarchived", "archived"}
    /\ probes[k].call.pc = "get"
    /\ \E err \in AttemptOutcomes(probes[k].call.url) :
          LET call == AttemptEnd(probes[k].call, err)
              ps == [probes EXCEPT
                        ![k] = market_report_url(probes[k], call, reqReport)]
              b == AfterProbe(batch, ps, k, reqReport)
          IN  /\ probes' = ps
              /\ batch' = b
              /\ fetches' = IF batch.pc = "resolving" THEN StartedFetches(b)
                            ELSE fetches
              /\ connBudget' = ConnBudgetAfter(err)
    /\ semaphore' = Release(semaphore)
    /\ UNCHANGED <<fnVars, liveVars, callers, worldVars, doneQ, parsed>>

\* a waiting report fetch takes a free permit and issues session.get
FetchAcquire(i) ==
    /\ fetches[i].pc = "acquire"
    /\ PermitFree(semaphore)
    /\ semaphore' = semaphore - 1
    /\ fetches' = [fetches EXCEPT ![i].pc = "get"]
    /\ UNCHANGED <<fnVars, liveVars, connBudget, callers, worldVars, probes, doneQ,
                   batch, parsed>>

\* the fixed wait of a report fetch is over
FetchWaitEnds(i) ==
    /\ fetches[i].pc = "wait"
    /\ fetches' = [fetches EXCEPT ![i] = AfterWait(fetches[i])]
    /\ UNCHANGED <<fnVars, liveVars, semaphore, connBudget, callers, worldVars, probes,
                   doneQ, batch, parsed>>

\* session.get of a report fetch returns or raises; a finished task is
\* queued for the as_completed loop
FetchAttemptEnds(i) ==
    /\ fetches[i].pc = "get"
    /\ \E err \in AttemptOutcomes(fetches[i].url) :
          LET call == AttemptEnd(fetches[i], err)
          IN  /\ fetches' = [fetches EXCEPT ![i] = call]
              /\ doneQ' = IF Finished(call) THEN Append(doneQ, i) ELSE doneQ
              /\ connBudget' = ConnBudgetAfter(err)
    /\ semaphore' = Release(semaphore)
    /\ UNCHANGED <<fnVars, liveVars, callers, worldVars, probes, batch, parsed>>

\* the batch with the outcome st of one loop iteration; the loop ends after
\* the last task
AfterIteration(b, st, total) ==
    LET next == [b EXCEPT !.unretrieved_files = st.unret, !.dfs = st.dfs,
                          !.taken = b.taken + 1]
    IN  IF st.err # NoError
        THEN [next EXCEPT !.pc = "raised", !.err = st.err]
        ELSE IF next.taken = total THEN Finalize(next)
        ELSE next

\* "await coro" on a fetch that failed: the error leaves the batch call
SkipFailed(b, call) == [b EXCEPT !.taken = b.taken + 1]

TakeFailed(b, call) ==
    [b EXCEPT !.pc = "raised", !.err = call.err, !.taken = b.taken + 1]

\* one iteration of the as_completed loop: the next completed fetch is
\* awaited; its error is raised, or its body is read and parsed
BatchTakesNext ==
    /\ batch.pc = "fetching"
    /\ doneQ # << >>
    /\ LET call == fetches[Head(doneQ)]
           st0 == [unret |-> batch.unretrieved_files, dfs |-> batch.dfs,
                   parsed |-> parsed, err |-> NoError]
           members == IF call.url \in DOMAIN zips THEN zips[call.url]
                      ELSE << >>
       IN  \/ /\ call.pc = "raised"
              /\ batch' = TakeFailed(batch, call)
              /\ UNCHANGED <<parsed, connBudget>>
           \/ /\ call.pc = "returned"
              /\ \E checked \in BOOLEAN :
                    LET st == ProcessResponse(st0, call.url, members,
                                              WorldDays, reqReport, corrupt,
                                              checked)
                    IN  /\ batch' = AfterIteration(batch, st, Len(fetches))
                        /\ parsed' = st.parsed
              /\ UNCHANGED connBudget
           \/ /\ call.pc = "returned"
              /\ connBudget > 0
              /\ batch' = [batch EXCEPT !.pc = "raised",
                                        !.err = ClientPayloadError,
                                        !.taken = batch.taken + 1]
              /\ connBudget' = ConnBudgetAfter(ClientPayloadError)
              /\ UNCHANGED parsed
    /\ doneQ' = Tail(doneQ)
    /\ UNCHANGED <<fnVars, liveVars, semaphore, callers, worldVars, probes, fetches>>

\* the operator withdraws a published file (a daily file leaves the site
\* when its month is archived): the url answers 404 from now on.  Only a
\* url that a probe has already found is withdrawn here: a withdrawal
\* before the probe is the initial state in which the url answers 404
OperatorRemoves(u) ==
    /\ remote[u] = 200
    /\ \E k \in DOMAIN probes : probes[k].url = u
    /\ connBudget > 0
    /\ batch.pc \in {"resolving", "fetching"}
    /\ remote' = [remote EXCEPT ![u] = 404]
    /\ withdrawn' = withdrawn \cup {u}
    /\ connBudget' = connBudget - 1
    /\ UNCHANGED <<fnVars, liveVars, semaphore, callers, reqReport, reqDates, zips,
                   corrupt, batchVars>>

Next ==
    \/ \E u \in DOMAIN remote : OperatorRemoves(u)
    \/ \E k \in DOMAIN probes :
          \/ ProbeAcquire(k)
          \/ ProbeAttemptEnds(k)
          \/ ProbeWaitEnds(k)
    \/ \E i \in DOMAIN fetches :
          \/ FetchAcquire(i)
          \/ FetchAttemptEnds(i)
          \/ FetchWaitEnds(i)
    \/ BatchTakesNext

Spec == Init /\ [][Next]_vars

(***************************************************************************)
(* Specification of one call of a get_*_data operation by a process that   *)
(* constructed a client, and of the end of that process.                   *)
(***************************************************************************)
\* the clock at the call
FacadeNows ==
    {[year |-> MaxYear, month |-> 1, day |-> 31, hour |-> hm[1],
      minute |-> hm[2], tz |-> "EST"] : hm \in {<<0, 0>>, <<13, 5>>}}

\* the dates arguments of the call
FacadeDates ==
    {[mode |-> "latest"], [mode |-> "today"], [mode |-> "other"],
     [mode |-> "list", dates |-> <<BatchInstants[1]>>]}

\* the sequences without repetition of elements of S
Arrangements(S) ==
    UNION {{f \in [1..n -> S] : \A i, j \in 1..n : i # j => f[i] # f[j]} :
              n \in 0..Cardinality(S)}

\* "{day}-{month}-{year} - Interval {hour}:{min} EST" as the API writes it
RefIdOf(now) ==
    ZeroPad(now.day, 2) \o "-" \o MonthAbbr[now.month] \o "-"
    \o ZeroPad(now.year, 4) \o " - Interval " \o ZeroPad(now.hour, 2) \o ":"
    \o ZeroPad(now.minute, 2) \o " EST"

\* the reference ids a payload may carry: the well-formed one, one
\* without the trailing token, one without the marker, an empty one, one
\* with trailing whitespace
RefIds(now) ==
    LET good == RefIdOf(now)
    IN  {good,
         SubSeq(good, 1, Len(good) - 4),
         SubSeq(good, 1, 11) \o SubSeq(good, 23, Len(good)),
         "",
         good \o " "}

\* the "Time" values of FiveMinTotalLoad
LiveTimes ==
    {IF k = MaxIntervals THEN "23:55" ELSE "00:" \o ZeroPad(5 * (k - 1), 2) :
        k \in 1..MaxIntervals}

\* the "HourEnding" values of MediumTermLoadForecast
LiveHourEndings(now) == (1..(MaxIntervals - 2)) \cup {now.hour + 1, 24}

\* an entry of the fuel mix payload for the interval of now, or for the
\* interval five minutes later
FuelEntry(now, late) ==
    [year |-> now.year, month |-> now.month, day |-> now.day,
     hour12 |-> IF now.hour % 12 = 0 THEN 12 ELSE now.hour % 12,
     pm |-> now.hour >= 12,
     minute |-> IF late THEN now.minute + 5 ELSE now.minute]

\* the rows of the csv of the price API: two hubs and a node that is none
LmpCsvRows(now) ==
    {[INTERVAL |-> [now EXCEPT !.tz = "naive"], CPNODE |-> n] :
        n \in {"TEXAS.HUB", "ARKANSAS.HUB", "AECI"}}

\* the payloads the url of an operation may answer with
LivePayloads(op, now) ==
    CASE op = "get_load_data" ->
            {[RefId |-> r, FiveMinTotalLoad |-> ts,
              MediumTermLoadForecast |-> <<1, 24>>] :
                r \in RefIds(now), ts \in Arrangements(LiveTimes)}
      [] op = "get_forecast_data" ->
            {[RefId |-> r, FiveMinTotalLoad |-> <<"00:00">>,
              MediumTermLoadForecast |-> hs] :
                r \in RefIds(now), hs \in Arrangements(LiveHourEndings(now))}
      [] op = "get_fuel_mix_data" ->
            {[RefId |-> r, Fuel |-> es] :
                r \in RefIds(now),
                es \in {<<FuelEntry(now, FALSE)>>,
                        <<FuelEntry(now, FALSE), FuelEntry(now, FALSE)>>,
                        <<FuelEntry(now, FALSE), FuelEntry(now, TRUE)>>}}
      [] OTHER -> Arrangements(LmpCsvRows(now))

NewFacadeCall(op, dates) ==
    [op |-> op, dates |-> dates, pc |-> "start", fetched |-> 0,
     call |-> NewCall("", "_fetch"), err |-> NoError, df |-> << >>]

InitFacade ==
    /\ NoFilenameCall
    /\ callers = << >>
    /\ semaphore = ConcurrentLimit
    /\ probes = << >>
    /\ fetches = << >>
    /\ doneQ = << >>
    /\ batch = [pc |-> "idle"]
    /\ parsed = << >>
    /\ \E op \in Operations, dates \in FacadeDates, now \in FacadeNows :
          LET d == Dispatch(op, dates, now)
          IN  /\ facade = NewFacadeCall(op, dates)
              /\ IF d.do = "batch"
                 THEN /\ reqReport = d.report
                      /\ reqDates = d.dates
                      /\ BatchWorld
                      /\ live = [now |-> now, payload |-> << >>]
                 ELSE /\ reqReport = "FORECAST_AND_LOAD"
                      /\ reqDates = << >>
                      /\ zips = << >>
                      /\ corrupt = {}
                      /\ withdrawn = {}
                      /\ IF d.do = "fetch"
                         THEN /\ remote \in [{d.url} -> HttpStatuses]
                              /\ live \in {[now |-> now, payload |-> pl] :
                                               pl \in LivePayloads(op, now)}
                         ELSE /\ remote = << >>
                              /\ live = [now |-> now, payload |-> << >>]
                      /\ connBudget =
                            MaxFaults - Cardinality({u \in DOMAIN remote :
                                                        remote[u] = 500})
    /\ client \in {[session |-> "open", owner |-> o, process |-> "running"] :
                      o \in {"client", "caller"}}

\* the outcome r of the operation leaves the call
FacadeEnds(f, r) ==
    IF r.err # NoError THEN [f EXCEPT !.pc = "raised", !.err = r.err]
    ELSE [f EXCEPT !.pc = "returned", !.df = r.value]

\* the operation runs up to its first await
FacadeStart ==
    /\ facade.pc = "start"
    /\ LET d == Dispatch(facade.op, facade.dates, live.now)
       IN  \/ /\ d.do = "raise"
              /\ facade' = FacadeEnds(facade, [err |-> d.err])
              /\ UNCHANGED batchVars
           \/ /\ d.do = "fetch"
              /\ facade' = [facade EXCEPT !.pc = "fetching",
                                          !.fetched = facade.fetched + 1,
                                          !.call = NewCall(d.url, "_fetch")]
              /\ UNCHANGED batchVars
           \/ /\ d.do = "batch"
              /\ facade' = [facade EXCEPT !.pc = "delegated"]
              /\ probes' = [k \in DOMAIN d.dates |->
                               NewProbe(d.dates[k], d.report)]
              /\ batch' = NewBatch
              /\ UNCHANGED <<fetches, doneQ, parsed>>
    /\ UNCHANGED <<fnVars, semaphore, connBudget, callers, worldVars, live,
                   client>>

\* the live fetch takes a free permit and issues session.get
FacadeAcquire ==
    /\ facade.pc = "fetching"
    /\ facade.call.pc = "acquire"
    /\ PermitFree(semaphore)
    /\ semaphore' = semaphore - 1
    /\ facade' = [facade EXCEPT !.call.pc = "get"]
    /\ UNCHANGED <<fnVars, connBudget, callers, worldVars, batchVars, live,
                   client>>

\* the fixed wait of the live fetch is over
FacadeWaitEnds ==
    /\ facade.pc = "fetching"
    /\ facade.call.pc = "wait"
    /\ facade' = [facade EXCEPT !.call = AfterWait(facade.call)]
    /\ UNCHANGED <<fnVars, semaphore, connBudget, callers, worldVars,
                   batchVars, live, client>>

\* session.get of the live fetch returns or raises: the error of _fetch
\* leaves the operation, a response is read next
FacadeAttemptEnds ==
    /\ facade.pc = "fetching"
    /\ facade.call.pc = "get"
    /\ \E err \in AttemptOutcomes(facade.call.url) :
          LET call == AttemptEnd(facade.call, err)
              f == [facade EXCEPT !.call = call]
          IN  /\ facade' = IF call.pc = "raised"
                           THEN FacadeEnds(f, [err |-> call.err])
                           ELSE IF call.pc = "returned"
                           THEN [f EXCEPT !.pc = "reading"]
                           ELSE f
              /\ connBudget' = ConnBudgetAfter(err)
    /\ semaphore' = Release(semaphore)
    /\ UNCHANGED <<fnVars, callers, worldVars, batchVars, live, client>>

\* "await resp.read()" returns the payload, which is parsed and filtered,
\* or the connection breaks under the read
FacadeReads ==
    /\ facade.pc = "reading"
    /\ \/ /\ \E checked \in BOOLEAN :
                facade' = FacadeEnds(facade,
                              AfterLiveFetch(facade.op, facade.dates,
                                             live.payload, live.now, checked))
          /\ UNCHANGED connBudget
       \/ /\ connBudget > 0
          /\ facade' = FacadeEnds(facade, [err |-> ClientPayloadError])
          /\ connBudget' = ConnBudgetAfter(ClientPayloadError)
    /\ UNCHANGED <<fnVars, semaphore, callers, worldVars, batchVars, live,
                   client>>

\* retrieve_and_parse_market_report_files returned or raised
FacadeBatchEnds ==
    /\ facade.pc = "delegated"
    /\ batch.pc \in {"returned", "raised"}
    /\ facade' = FacadeEnds(facade, AfterBatch(facade.op, facade.dates, batch,
                                               live.now))
    /\ UNCHANGED <<fnVars, semaphore, connBudget, callers, worldVars,
                   batchVars, live, client>>

\* a caller that handed its own session to the constructor closes it
CallerClosesSession ==
    /\ client.owner = "caller"
    /\ client.process = "running"
    /\ client.session = "open"
    /\ facade.pc \in {"returned", "raised"}
    /\ client' = [client EXCEPT !.session = "closed"]
    /\ UNCHANGED <<fnVars, semaphore, connBudget, callers, worldVars,
                   batchVars, facade, live>>

\* the program ends: the interpreter starts to shut down
ProcessExits ==
    /\ client.process = "running"
    /\ facade.pc \in {"returned", "raised"}
    /\ client' = [client EXCEPT !.process = "exiting"]
    /\ UNCHANGED <<fnVars, semaphore, connBudget, callers, worldVars,
                   batchVars, facade, live>>

\* the hook registered by atexit.register(asyncio.run, session.close())
AtExit ==
    /\ client.process = "exiting"
    /\ client' = [client EXCEPT !.session = "closed", !.process = "exited"]
    /\ UNCHANGED <<fnVars, semaphore, connBudget, callers, worldVars,
                   batchVars, facade, live>>

NextFacade ==
    \/ FacadeStart
    \/ FacadeAcquire
    \/ FacadeAttemptEnds
    \/ FacadeWaitEnds
    \/ FacadeReads
    \/ FacadeBatchEnds
    \/ CallerClosesSession
    \/ ProcessExits
    \/ AtExit
    \/ Next

SpecFacade == InitFacade /\ [][NextFacade]_vars

(***************************************************************************)
(* Claims about the transport.                                             *)
(***************************************************************************)
\* every invocation of _fetch / check_url_exists of the client
AllCalls ==
    {callers[i] : i \in DOMAIN callers}
    \cup {probes[k].call : k \in DOMAIN probes}
    \cup {fetches[i] : i \in DOMAIN fetches}

\* the number of invocations awaiting session.get
InFlight ==
    Cardinality({i \in DOMAIN callers : callers[i].pc = "get"})
    + Cardinality({k \in DOMAIN probes : probes[k].call.pc = "get"})
    + Cardinality({i \in DOMAIN fetches : fetches[i].pc = "get"})

\* C1: at every moment at most ConcurrentLimit invocations of one client
\* are executing their network request, whatever mix of existence probes
\* and plain fetches is running.
C1_InFlightBounded == InFlight <= ConcurrentLimit

\* C1 witness: the limit is reached while another call waits for a permit
C1_Witness ==
    /\ InFlight = ConcurrentLimit
    /\ \E c \in AllCalls : c.pc = "acquire"

\* C2: a call whose attempt ended with HTTP 404 is over: it is not waiting
\* for a retry, not queued for a permit and not requesting again; when the
\* network produced no connection failure it made exactly one attempt and
\* never slept.
C2_NotFoundNeverRetried ==
    \A c \in AllCalls :
        (c.err = ClientResponseError(404)) =>
            /\ Finished(c)
            /\ (connBudget = MaxConnErrors => c.attempt = 1 /\ c.slept = 0)

\* C2 witness: a plain fetch raised 404 after its first attempt
C2_Witness ==
    \E c \in AllCalls :
        /\ c.via = "_fetch" /\ c.pc = "raised"
        /\ c.err = ClientResponseError(404) /\ c.attempt = 1

\* C3: no call makes more than MaxAttempts attempts, it sleeps WaitSeconds
\* between consecutive attempts, and a call that ends with a connection
\* error made exactly MaxAttempts attempts and raises that very error.
C3_AtMostTenAttempts ==
    \A c \in AllCalls :
        /\ c.attempt \in 1..MaxAttempts
        /\ c.slept = WaitSeconds * (c.attempt - 1)
        /\ c.pc = "wait" => c.attempt < MaxAttempts
        /\ (c.pc = "raised" /\ c.err.status = 0) =>
              \/ c.err = TimeoutError
              \/ c.err = ServerDisconnectedError /\ c.attempt = MaxAttempts

\* C3 witness: a call raised the connection error after the tenth attempt
C3_Witness ==
    \E c \in AllCalls :
        /\ c.pc = "raised" /\ c.err = ServerDisconnectedError
        /\ c.attempt = MaxAttempts /\ c.slept = WaitSeconds * (MaxAttempts - 1)

\* C4: a call waits for a retry only after a connection-level failure; an
\* attempt that ended with any other error (HTTP 500, a timeout) ended the
\* call, and without connection failures in the run that was its first
\* attempt.
C4_RetryOnlyConnectionErrors ==
    \A c \in AllCalls :
        /\ c.pc = "wait" => isinstance(c.err, "ClientConnectionError")
        /\ (c.err # NoError /\ ~isinstance(c.err, "ClientConnectionError")) =>
              /\ Finished(c)
              /\ (connBudget = MaxConnErrors => c.attempt = 1 /\ c.slept = 0)

\* C4 witness: a fetch raised HTTP 500 after one attempt
C4_Witness ==
    \E c \in AllCalls :
        /\ c.pc = "raised" /\ c.err = ClientResponseError(500)
        /\ c.attempt = 1

\* C5: a finished check_url_exists returned True exactly when its fetch got
\* a response, returned False exactly when its fetch raised HTTP 404, and
\* raised the error of its fetch in every other case.
C5_CheckUrlExists ==
    \A c \in AllCalls :
        (c.via = "check_url_exists" /\ Finished(c)) =>
            \/ /\ c.pc = "returned" /\ c.value = "True"
               /\ c.err = NoError /\ remote[c.url] < 400
            \/ /\ c.pc = "returned" /\ c.value = "False"
               /\ c.err = ClientResponseError(404) /\ remote[c.url] = 404
            \/ /\ c.pc = "raised" /\ c.value = "none"
               /\ c.err \notin {NoError, ClientResponseError(404)}

\* C5 witness: the three outcomes, the raised one after exhausted retries
C5_Witness ==
    /\ \E c \in AllCalls :
          c.via = "check_url_exists" /\ c.pc = "returned" /\ c.value = "False"
    /\ \E c \in AllCalls :
          /\ c.via = "check_url_exists" /\ c.pc = "raised"
          /\ c.err = ServerDisconnectedError

(***************************************************************************)
(* Claims about the file names.                                            *)
(***************************************************************************)
\* the calendar day after d
DayAfter(d) ==
    CHOOSE e \in [year : {d.year, d.year + 1},
                  month : {d.month, (d.month % 12) + 1},
                  day : {d.day + 1, 1}] :
        Ordinal(e) = Ordinal(d) + 1

\* the (suffix, ext) rows as the specification lists them
ExpectedSuffixExt(report) ==
    CASE report = "FORECAST_AND_LOAD" -> <<"df_al", "xls">>
      [] report = "GENERATION_FUEL_MIX" -> <<"sr_gfm", "xlsx">>
      [] report = "DAYAHEAD_EXANTE_LMP" -> <<"da_exante_lmp", "csv">>
      [] report = "DAYAHEAD_EXPOST_LMP" -> <<"da_expost_lmp", "csv">>
      [] report = "REALTIME_EXANTE_LMP" -> <<"5min_exante_lmp", "xlsx">>

ExpectedFilename(date, report, is_archived) ==
    LET e == IF report \in {"FORECAST_AND_LOAD", "GENERATION_FUEL_MIX",
                            "REALTIME_EXANTE_LMP"}
             THEN DayAfter(date)
             ELSE [year |-> date.year, month |-> date.month, day |-> date.day]
        se == ExpectedSuffixExt(report)
    IN  IF is_archived
        THEN ZeroPad(e.year * 100 + e.month, 6)
                \o "_" \o se[1] \o "_" \o se[2] \o ".zip"
        ELSE ZeroPad(e.year * 10000 + e.month * 100 + e.day, 8)
                \o "_" \o se[1] \o "." \o se[2]

\* C7: the name of a report file is {d':YYYYMMDD}_{suffix}.{ext}, or
\* {d':YYYYMM}_{suffix}_{ext}.zip when archived, with d' the day after the
\* market date for the three publish-date reports and the market date
\* itself for the two day-ahead reports.
C7_FilenameFormat ==
    fnResult # "" =>
        fnResult = ExpectedFilename(fnArgs.date, fnArgs.report,
                                    fnArgs.is_archived)

\* C7 witness: the one-day advance moved an archive name into the next year
C7_Witness ==
    /\ fnArgs.date.year = MinYear /\ fnArgs.date.month = 12
    /\ fnArgs.date.day = 31 /\ fnArgs.date.hour = 23
    /\ fnArgs.report = "GENERATION_FUEL_MIX" /\ fnArgs.is_archived
    /\ fnResult = ZeroPad(MinYear + 1, 4) \o "01_sr_gfm_xlsx.zip"

(***************************************************************************)
(* Claims about the locator and the batch orchestrator.                    *)
(***************************************************************************)
UnarchivedUrl(date) ==
    BASE_URL \o "/" \o market_report_filename(date, reqReport, FALSE)

ArchivedUrl(date) ==
    BASE_URL \o "/" \o market_report_filename(date, reqReport, TRUE)

\* nothing went wrong so far: no url answers 500, no file is rejected by
\* parse_fn, the network failed no request
FaultFree == connBudget = MaxFaults

\* C6: a finished resolution asked for the unarchived url first and
\* returned it when it was found (whether or not the archive exists); it
\* returned the archived url when only that one was found, and None when
\* neither was; as long as the server's files are as they were at the start
\* that is decided by the files that exist.  A resolution never raises
\* because a file is absent.
C6_ResolutionPrecedence ==
    \A k \in DOMAIN probes :
        LET p == probes[k]
            u == UnarchivedUrl(p.date)
            a == ArchivedUrl(p.date)
            found(i, url) == /\ Len(p.answers) >= i
                             /\ p.answers[i] = [url |-> url, value |-> "True"]
            absent(i, url) == /\ Len(p.answers) >= i
                              /\ p.answers[i] = [url |-> url, value |-> "False"]
        IN  /\ p.stage = "done" =>
                  \/ found(1, u) /\ p.url = u /\ Len(p.answers) = 1
                  \/ absent(1, u) /\ found(2, a) /\ p.url = a
                  \/ absent(1, u) /\ absent(2, a) /\ p.url = "None"
            /\ (p.stage = "done" /\ withdrawn = {}) =>
                  /\ remote[u] = 200 => p.url = u
                  /\ (remote[u] = 404 /\ remote[a] = 200) => p.url = a
                  /\ (remote[u] = 404 /\ remote[a] = 404) => p.url = "None"
            /\ p.stage = "raised" =>
                  /\ p.call.err # ClientResponseError(404)
                  /\ ~FaultFree

\* C6 witness: one date resolved to its unarchived url although its
\* archive exists, another to the archive, in one batch
C6_Witness ==
    /\ \E k \in DOMAIN probes :
          /\ probes[k].stage = "done"
          /\ probes[k].url = UnarchivedUrl(probes[k].date)
          /\ remote[ArchivedUrl(probes[k].date)] = 200
    /\ \E k \in DOMAIN probes :
          /\ probes[k].stage = "done"
          /\ probes[k].url = ArchivedUrl(probes[k].date)

\* C6 witness of absence: a date with neither file resolved to None
C6_WitnessNone ==
    \E k \in DOMAIN probes :
        /\ probes[k].stage = "done" /\ probes[k].url = "None"
        /\ remote[ArchivedUrl(probes[k].date)] = 404

\* the unarchived names of the requested dates that resolved to a url
ExpectedNames ==
    {market_report_filename(d, reqReport, FALSE) : d \in DOMAIN batch.urls_dict}

RequestedDays == {Ordinal(to_native_tz(reqDates[k])) : k \in DOMAIN reqDates}

\* C8: every file handed to parse_fn is named like the unarchived file of
\* a requested date that resolved to a url, and every row of a returned
\* table starts within a requested day.
C8_OnlyExpectedFilesParsed ==
    /\ \A i \in DOMAIN parsed : parsed[i] \in ExpectedNames
    /\ batch.pc = "returned" =>
          \A i \in DOMAIN batch.df :
              (batch.df[i].start \div timedelta(24, 0)) \in RequestedDays

\* C8 witness: a batch returned after it read an archive that holds the
\* file of a day that was not requested
C8_Witness ==
    /\ batch.pc = "returned"
    /\ \E i \in DOMAIN fetches :
          /\ fetches[i].url \in DOMAIN zips
          /\ \E m \in DOMAIN zips[fetches[i].url] :
                zips[fetches[i].url][m] \notin ExpectedNames
          /\ \E m \in DOMAIN zips[fetches[i].url] :
                \E j \in DOMAIN parsed : parsed[j] = zips[fetches[i].url][m]

\* a date or a file of the request was reported missing
Gap == batch.missing_dates # {} \/ batch.missing_files # {}

\* C9 (as claimed): a batch in which dates or files are missing, and in
\* which nothing else went wrong, raises no exception.
C9_MissingNeverRaises ==
    (FaultFree /\ Gap /\ batch.pc = "raised") =>
        batch.err \in {AssertionError, KeyError}

\* the fetch tasks the as_completed loop has taken
Taken ==
    {i \in DOMAIN fetches :
        Finished(fetches[i]) /\ \A q \in DOMAIN doneQ : doneQ[q] # i}

\* C10: when the loop meets a failed fetch, or parse_fn fails on a file,
\* the batch call raises that error; a batch that raised returns no table,
\* and a batch that returned met no failed fetch and no rejected file.
C10_FailureAbortsBatch ==
    /\ \A i \in Taken :
          fetches[i].pc = "raised" =>
              batch.pc = "raised" /\ batch.err = fetches[i].err
    /\ (\E j \in DOMAIN parsed : parsed[j] \in corrupt) =>
          batch.pc = "raised" /\ batch.err = ParseError
    /\ batch.pc = "raised" => batch.df = << >> /\ batch.err # NoError
    /\ batch.pc = "returned" =>
          /\ \A i \in DOMAIN fetches : fetches[i].pc = "returned"
          /\ batch.err = NoError

\* C10 witness: a fetch failed after another file had been parsed, and
\* the batch raised the error of the fetch
C10_Witness ==
    /\ batch.pc = "raised" /\ batch.dfs # << >>
    /\ \E i \in Taken :
          fetches[i].pc = "raised" /\ batch.err = fetches[i].err

\* C10 witness of a report that answered 404 after its probe had found it
C10_WitnessNotFound ==
    /\ batch.pc = "raised" /\ batch.err = ClientResponseError(404)
    /\ \E i \in Taken : fetches[i].err = ClientResponseError(404)

\* C10 witness of a parse failure after another file had been parsed
C10_WitnessParse ==
    /\ batch.pc = "raised" /\ batch.err = ParseError
    /\ batch.dfs # << >>

(***************************************************************************)
(* Claims about the returned table.                                        *)
(***************************************************************************)
\* rows a and b are in ascending order of (start, node)
Ascending(a, b) ==
    \/ a.start < b.start
    \/ a.start = b.start /\ NodeRank(a) <= NodeRank(b)

\* C11: the table a batch returns is sorted ascending by (start, node),
\* whatever order the files were parsed and appended in.
C11_ResultSorted ==
    batch.pc = "returned" =>
        \A i \in 1..(Len(batch.df) - 1) :
            Ascending(batch.df[i], batch.df[i + 1])

\* C11 witness: a table with a node column was returned after the file of
\* a later day had been appended before the file of an earlier day
C11_Witness ==
    /\ batch.pc = "returned"
    /\ Len(batch.dfs) >= 2
    /\ batch.dfs[1][1].start > batch.dfs[2][1].start
    /\ "node" \in DOMAIN batch.df[1]

\* the members of the archive behind a url, none for a daily file
MembersOf(url) == IF url \in DOMAIN zips THEN zips[url] ELSE << >>

\* the batch b after the loop took the fetched urls in the given order
RECURSIVE InOrder(_, _)
InOrder(b, order) ==
    IF order = << >> \/ b.pc # "fetching" THEN b
    ELSE LET st0 == [unret |-> b.unretrieved_files, dfs |-> b.dfs,
                     parsed |-> << >>, err |-> NoError]
             st == ProcessResponse(st0, Head(order), MembersOf(Head(order)),
                                   WorldDays, reqReport, corrupt, TRUE)
         IN  InOrder(AfterIteration(b, st, Len(FetchUrls(b))), Tail(order))

\* the run of the same call in which the fetches complete in the order
\* their tasks were created
ReferenceRun ==
    LET b == AfterResolve(NewBatch, probes, reqReport)
    IN  InOrder(b, FetchUrls(b))

\* C12 (as claimed): against a fixed remote state every run of a batch
\* call ends like the run in which the fetches complete in task order:
\* it returns, and it returns the same table.
C12_SameTableEveryRun ==
    (FaultFree /\ batch.pc \in {"returned", "raised"}) =>
        /\ batch.pc = ReferenceRun.pc
        /\ batch.df = ReferenceRun.df

\* C20 (as claimed): a payload that is no archive is processed only while
\* its file name is still in the expected set: the assertion of the
\* direct-parse branch never fails and, where assertions are stripped, the
\* removal of the name never fails.
C20_DirectPayloadIsExpected ==
    batch.pc = "raised" => batch.err \notin {AssertionError, KeyError}

(***************************************************************************)
(* Claims about the operations of the client.                              *)
(***************************************************************************)
FacadeDone == facade.pc \in {"returned", "raised"}

\* no request of the report path was started
NoReportPath == probes = << >> /\ fetches = << >> /\ batch.pc = "idle"

\* C13: get_fuel_mix_data called with "today" raises the unsupported-mode
\* error without a fetch, a probe or a permit acquisition.
C13_FuelMixTodayUnsupported ==
    (facade.op = "get_fuel_mix_data" /\ facade.dates.mode = "today"
        /\ facade.pc # "start") =>
        /\ facade.pc = "raised"
        /\ facade.err = NotImplementedError
        /\ facade.fetched = 0
        /\ facade.call.pc = "acquire"
        /\ semaphore = ConcurrentLimit
        /\ NoReportPath

\* C13 witness: the fuel mix operation raised on "today"
C13_Witness ==
    /\ facade.op = "get_fuel_mix_data" /\ facade.dates.mode = "today"
    /\ facade.pc = "raised"

\* C14 (as claimed): a latest request of any metric family makes exactly
\* one live fetch and does not use the report path.
C14_LatestIsOneLiveFetch ==
    (facade.dates.mode = "latest" /\ FacadeDone) =>
        facade.fetched = 1 /\ NoReportPath

\* C14 (amended): a latest request for load, forecast, fuel mix or
\* real-time prices makes exactly one live fetch and does not use the
\* report path; a latest request for day-ahead prices makes no live fetch
\* and resolves the report of the current day through the report path.
C14_LatestLiveExceptDayAhead ==
    (facade.dates.mode = "latest" /\ FacadeDone) =>
        IF facade.op = "get_dayahead_lmp_data"
        THEN /\ facade.fetched = 0
             /\ Len(probes) = 1
             /\ probes[1].date = live.now
             /\ probes[1].answers # << >>
        ELSE facade.fetched = 1 /\ NoReportPath

\* C14 witness: a latest load request returned after its live fetch
C14_Witness ==
    /\ facade.op = "get_load_data" /\ facade.dates.mode = "latest"
    /\ facade.pc = "returned" /\ facade.call.pc = "returned"

\* C14 witness of the report path: a latest day-ahead request returned
\* the rows of a report file
C14_WitnessDayAhead ==
    /\ facade.op = "get_dayahead_lmp_data" /\ facade.dates.mode = "latest"
    /\ facade.pc = "returned" /\ parsed # << >>

\* the payload was read and handed to the parser
PayloadParsed ==
    /\ FacadeDone
    /\ facade.call.pc = "returned"
    /\ facade.err # ClientPayloadError

\* the start values of the intervals of a load payload
LoadStarts ==
    LET rows == LoadRows(live.payload,
                         [live.now EXCEPT !.hour = 0, !.minute = 0])
    IN  {rows[k].value.start : k \in DOMAIN rows}

\* C15: a latest load request whose payload holds one or more intervals,
\* in any order, returns exactly one row, the interval with the greatest
\* start.
C15_LatestLoadIsLastInterval ==
    (facade.op = "get_load_data" /\ facade.dates.mode = "latest"
        /\ PayloadParsed /\ live.payload.RefId = RefIdOf(live.now)
        /\ Len(live.payload.FiveMinTotalLoad) >= 1) =>
        /\ facade.pc = "returned"
        /\ Len(facade.df) = 1
        /\ facade.df[1].start \in LoadStarts
        /\ \A t \in LoadStarts : t <= facade.df[1].start

\* C15 witness: three intervals, the latest of them not last in the payload
C15_Witness ==
    /\ facade.op = "get_load_data" /\ facade.dates.mode = "latest"
    /\ facade.pc = "returned"
    /\ Len(live.payload.FiveMinTotalLoad) = 3
    /\ live.payload.FiveMinTotalLoad[3] # "23:55"

\* the start values of the hours of a forecast payload
ForecastStarts ==
    {Timestamp([live.now EXCEPT !.hour = 0], 0) + timedelta(h - 1, 0) :
        h \in {live.payload.MediumTermLoadForecast[k] :
                  k \in DOMAIN live.payload.MediumTermLoadForecast}}

\* C16 (as claimed): the first row of the table of a today forecast
\* request starts at the current hour.
C16_TodayForecastStartsNow ==
    (facade.op = "get_forecast_data" /\ facade.dates.mode = "today"
        /\ facade.pc = "returned") =>
        /\ facade.df # << >>
        /\ facade.df[1].start = CurrentHour(live.now)

\* C16 (amended): a today forecast request returns the whole series of
\* the payload, so its first row starts at the earliest forecast hour of
\* the payload; it is a latest forecast request whose rows all start at
\* the current hour.
C16_TodayForecastIsWholeSeries ==
    (facade.op = "get_forecast_data" /\ facade.pc = "returned") =>
        IF facade.dates.mode = "today"
        THEN /\ Len(facade.df) = Len(live.payload.MediumTermLoadForecast)
             /\ facade.df[1].start \in ForecastStarts
             /\ \A t \in ForecastStarts : facade.df[1].start <= t
        ELSE facade.dates.mode = "latest" =>
                \A i \in DOMAIN facade.df :
                    facade.df[i].start = CurrentHour(live.now)

\* C16 witness: a today forecast request returned several hours, the
\* first of them not the current hour
C16_Witness ==
    /\ facade.op = "get_forecast_data" /\ facade.dates.mode = "today"
    /\ facade.pc = "returned"
    /\ Len(facade.df) >= 2
    /\ facade.df[1].start # CurrentHour(live.now)

\* the operations whose live payload carries a reference id
RefidOperations ==
    {"get_load_data", "get_forecast_data", "get_fuel_mix_data"}

\* the last token of s is not "EST", or the tokens after the date token
\* are not "-" and "Interval"
MalformedRefid(s) ==
    LET t == split(s)
    IN  \/ t = << >>
        \/ t[Len(t)] # "EST"
        \/ Len(t) < 3
        \/ t[2] # "-" \/ t[3] # "Interval"

\* C17 (as claimed): a live payload whose reference id is malformed makes
\* the call raise the malformed-reference-id error (the ValueError of
\* parse_api_refid_datetime) and return no table.
C17_MalformedRefidRaisesValueError ==
    (facade.op \in RefidOperations /\ IsLive(facade.dates)
        /\ PayloadParsed /\ MalformedRefid(live.payload.RefId)) =>
        /\ facade.pc = "raised"
        /\ facade.err = ValueError
        /\ facade.df = << >>

\* C18 (as claimed): the session of the client is released before the
\* exit hooks of the process run.
C18_ReleasedWithoutExitHook ==
    client.process = "exiting" => client.session = "closed"

\* the interval of the rows of an operation: five minutes for real-time
\* data, an hour for hourly data
Granularity(op, dates) ==
    IF \/ op = "get_realtime_lmp_data"
       \/ op \in {"get_load_data", "get_fuel_mix_data"} /\ IsLive(dates)
    THEN timedelta(0, 5)
    ELSE timedelta(1, 0)

\* the starts of the hours h - 1 of the market day of a parsed file, for
\* the hour-ending values h of the file
FileStarts(filename) ==
    LET d == MarketDayOf(filename, WorldDays, reqReport)
    IN  {Timestamp([d EXCEPT !.hour = 0], 0) + timedelta(h - 1, 0) :
            h \in {FileHourEndings[k] : k \in DOMAIN FileHourEndings}}

\* C19: every row of a returned table spans five minutes (real-time data)
\* or an hour (hourly data), and the row of hour-ending h starts at hour
\* h - 1 of its market day, on the live path and on the report path.
C19_IntervalLength ==
    facade.pc = "returned" =>
        /\ \A i \in DOMAIN facade.df :
              facade.df[i].end
                 = facade.df[i].start + Granularity(facade.op, facade.dates)
        /\ (facade.op = "get_forecast_data" /\ IsLive(facade.dates)) =>
              \A i \in DOMAIN facade.df : facade.df[i].start \in ForecastStarts
        /\ (facade.pc = "returned" /\ ~NoReportPath
                /\ facade.op # "get_realtime_lmp_data") =>
              /\ \A i \in DOMAIN batch.df :
                    \E j \in DOMAIN parsed :
                        batch.df[i].start \in FileStarts(parsed[j])
              /\ \A i \in DOMAIN facade.df :
                    \E j \in DOMAIN batch.df : facade.df[i] = batch.df[j]

\* C19 witness: a today forecast request returned the row of hour-ending
\* 24, which starts at hour 23
C19_Witness ==
    /\ facade.op = "get_forecast_data" /\ facade.dates.mode = "today"
    /\ facade.pc = "returned"
    /\ \E i \in DOMAIN facade.df :
          facade.df[i].start
             = Timestamp([live.now EXCEPT !.hour = 23], 0)

\* C19 witness of the report path: a table of report files was returned
C19_WitnessReport ==
    /\ facade.pc = "returned" /\ parsed # << >> /\ facade.df # << >>

(***************************************************************************)
(* Claims about the concurrent work of a call.                             *)
(***************************************************************************)
\* the batch call is over
BatchDone == batch.pc \in {"returned", "raised"}

\* a market_report_url coroutine that has not ended
ProbePending(k) == probes[k].stage \in {"unarchived", "archived"}

\* a _fetch task of the batch that has not ended
FetchPending(i) == ~Finished(fetches[i])

\* C21 (as claimed): when the batch call has returned or raised, none of
\* the probes and none of the report fetches it started is still waiting
\* for a permit, in flight or waiting to retry.
C21_NothingPendingAfterCall ==
    BatchDone =>
        /\ \A k \in DOMAIN probes : ~ProbePending(k)
        /\ \A i \in DOMAIN fetches : ~FetchPending(i)

\* C22 (as claimed): a table is appended to the accumulator only when
\* every fetch of the batch has completed.
C22_AppendOnlyAfterJoin ==
    [][batch'.dfs # batch.dfs =>
          \A i \in DOMAIN fetches : ~FetchPending(i)]_vars

\* C22 (amended): the accumulator is written only by the loop of the
\* batch, in the iteration that takes a completed fetch, and only by
\* appending; other fetches may be pending at that time, and no step of a
\* fetch or of a probe writes it.
C22_AppendsByTheLoopOnly ==
    [][batch'.dfs # batch.dfs =>
          /\ batch.pc = "fetching"
          /\ doneQ # << >>
          /\ fetches[Head(doneQ)].pc = "returned"
          /\ doneQ' = Tail(doneQ)
          /\ fetches' = fetches /\ probes' = probes
          /\ Len(batch'.dfs) > Len(batch.dfs)
          /\ SubSeq(batch'.dfs, 1, Len(batch.dfs)) = batch.dfs]_vars

\* C22 witness: two tables were appended, the later one while another
\* fetch of the batch was pending
C22_Witness ==
    /\ Len(batch.dfs) >= 2
    /\ \E i \in DOMAIN fetches : FetchPending(i)

\* the urls the requested dates resolved to: set(urls_dict.values())
ResolvedUrls == {batch.urls_dict[d] : d \in DOMAIN batch.urls_dict}

\* one _fetch task per distinct resolved url
OneFetchPerUrl ==
    /\ \A i, j \in DOMAIN fetches : fetches[i].url = fetches[j].url => i = j
    /\ {fetches[i].url : i \in DOMAIN fetches} = ResolvedUrls

\* no file name was handed to parse_fn twice
ParsedOnce == \A i, j \in DOMAIN parsed : parsed[i] = parsed[j] => i = j

\* C23 (as claimed): in the fetch step each distinct resolved url is
\* fetched by exactly one _fetch call, however many requested dates
\* resolve to it, and each expected file is parsed at most once.
C23_OneFetchPerUrlOneParsePerFile ==
    (batch.pc = "fetching" \/ fetches # << >>) =>
        OneFetchPerUrl /\ ParsedOnce

\* the resolution p has requested url: a check_url_exists call for it is
\* under way or has ended
Requested(p, url) ==
    \/ p.call.url = url
    \/ \E i \in DOMAIN p.answers : p.answers[i].url = url

\* C24: market_report_url requests the archived url only after the probe
\* of the unarchived url returned not-found; when the unarchived file
\* exists the archived url is never requested; a date is probed at most
\* twice; an error other than 404 on the unarchived probe ends the
\* resolution with that error and without a probe of the archive.
C24_ArchiveOnlyAfterNotFound ==
    \A k \in DOMAIN probes :
        LET p == probes[k]
            u == UnarchivedUrl(p.date)
            a == ArchivedUrl(p.date)
            n == Len(p.answers)
        IN  /\ n + (IF ProbePending(k) THEN 1 ELSE 0) <= 2
            /\ n >= 1 => p.answers[1].url = u
            /\ n >= 2 => p.answers[2].url = a
            /\ Requested(p, a) =>
                  n >= 1 /\ p.answers[1] = [url |-> u, value |-> "False"]
            /\ (n >= 1 /\ p.answers[1].value = "True") =>
                  /\ p.stage = "done" /\ p.url = u
                  /\ ~Requested(p, a)
            /\ (n >= 1 /\ p.answers[1].value = "raised") =>
                  /\ p.stage = "raised"
                  /\ p.call.url = u
                  /\ p.call.pc = "raised"
                  /\ p.call.err # ClientResponseError(404)
                  /\ ~Requested(p, a)

\* C24 witness: the unarchived probe of a date failed with an error
\* other than 404 and the resolution ended there
C24_Witness ==
    \E k \in DOMAIN probes :
        /\ probes[k].stage = "raised"
        /\ Len(probes[k].answers) = 1
        /\ probes[k].call.err # NoError

\* C24 witness of the second probe: the archive of a date is requested
\* after its unarchived url answered 404
C24_WitnessArchive ==
    \E k \in DOMAIN probes :
        /\ probes[k].stage = "archived"
        /\ probes[k].call.pc = "get"
        /\ probes[k].answers
              = <<[url |-> UnarchivedUrl(probes[k].date), value |-> "False"]>>

\* C25: a call holds a permit exactly while its session.get is awaited:
\* the free permits are the limit minus the requests in progress, so a
\* call that waits before a retry, or that has returned or raised, holds
\* none, and all permits are free whenever no request is in progress.
C25_PermitHeldOnlyDuringRequest ==
    /\ semaphore + InFlight = ConcurrentLimit
    /\ (\A c \in AllCalls : c.pc # "get") => semaphore = ConcurrentLimit

\* C25 witness: a call whose attempt failed waits for its retry without a
\* permit while the only permit in use is that of another call's request
C25_Witness ==
    /\ \E c \in AllCalls : c.pc = "wait" /\ c.err # NoError
    /\ \E c \in AllCalls : c.pc = "get"
    /\ semaphore = ConcurrentLimit - 1

\* C25 witness of the end: every call is over, one of them after a failed
\* attempt, and every permit is free
C25_WitnessAllFree ==
    /\ \A c \in AllCalls : Finished(c)
    /\ \E c \in AllCalls : c.pc = "raised"
    /\ semaphore = ConcurrentLimit

====
